---------------------------- MODULE Spec2Model ----------------------------
(***************************************************************************)
(* InteractiveParticles (src/src/main.rs): the frame loop of main, the     *)
(* Control Panel config_ui, the particle store initialize_particles, the   *)
(* physics stepper update_particles and the parameter mappers convert_*.   *)
(*                                                                         *)
(* Every f32 of the program is an IEEE 754 binary32 value, modelled by its *)
(* three fields [s, e, m] (sign, biased exponent, fraction).  The          *)
(* arithmetic below rounds to nearest, ties to even, and produces the      *)
(* infinities, the signed zeros, the subnormals and the non-number (NaN)   *)
(* as the hardware does.  All intermediate integers stay below 2^31.       *)
(***************************************************************************)
EXTENDS Integers, Sequences, FiniteSets

VARIABLES config, particles, input, ui, pc, substep, frame, edits, reset_len

vars == <<config, particles, input, ui, pc, substep, frame, edits, reset_len>>

(***************************************************************************)
(* binary32                                                                *)
(***************************************************************************)
F32(s, e, m) == [s |-> s, e |-> e, m |-> m]

TwoP23 == 2^23
TwoP24 == 2^24
TwoP12 == 2^12

NaN == F32(0, 255, 2^22)
Inf(s) == F32(s, 255, 0)
Zero(s) == F32(s, 0, 0)

IsNaN(a) == a.e = 255 /\ a.m # 0
IsInf(a) == a.e = 255 /\ a.m = 0
IsZero(a) == a.e = 0 /\ a.m = 0
IsFinite(a) == a.e < 255

\* The number of bits of n, 0 <= n < 2^30.
BitLen(n) == CHOOSE k \in 0..30 : n < 2^k /\ (k = 0 \/ n >= 2^(k - 1))

\* The significand of a finite non-zero value, normalised into [2^23, 2^24).
Sig(a) == IF a.e > 0 THEN TwoP23 + a.m ELSE a.m * 2^(24 - BitLen(a.m))
\* The exponent of the unit of Sig(a): the value is Sig(a) * 2^Exp(a).
Exp(a) == IF a.e > 0 THEN a.e - 150 ELSE -149 - (24 - BitLen(a.m))

\* The binary32 nearest to (sig + d) * 2^ex, where 0 <= d < 1 and d > 0 iff
\* sticky; ties go to the even fraction, overflow goes to infinity and a
\* result below the normal range is rounded as a subnormal.
RoundPack(s, ex, sig, sticky) ==
    LET n     == BitLen(sig)
        E     == ex + (n - 24) + 150
        shift == (n - 24) + (IF E <= 0 THEN 1 - E ELSE 0)
        Eeff  == IF E <= 0 THEN 1 ELSE E
    IN  IF E >= 255 THEN Inf(s)
        ELSE IF shift > n THEN Zero(s)
        ELSE IF shift <= 0
             THEN LET bits == (Eeff - 1) * TwoP23 + sig * 2^(-shift)
                  IN  F32(s, bits \div TwoP23, bits % TwoP23)
        ELSE LET q    == sig \div 2^shift
                 rem  == sig % 2^shift
                 half == 2^(shift - 1)
                 up   == IF rem > half \/ (rem = half /\ (sticky \/ q % 2 = 1))
                         THEN 1 ELSE 0
                 bits == (Eeff - 1) * TwoP23 + q + up
             IN  IF bits >= 255 * TwoP23 THEN Inf(s)
                 ELSE F32(s, bits \div TwoP23, bits % TwoP23)

XorSign(a, b) == IF a.s = b.s THEN 0 ELSE 1

\* a * b
FMul(a, b) ==
    IF a.e = 255 \/ b.e = 255
    THEN (IF IsNaN(a) \/ IsNaN(b) \/ IsZero(a) \/ IsZero(b) THEN NaN
          ELSE Inf(XorSign(a, b)))
    ELSE IF IsZero(a) \/ IsZero(b) THEN Zero(XorSign(a, b))
    ELSE LET sa  == Sig(a)
             sb  == Sig(b)
             ah  == sa \div TwoP12
             al  == sa % TwoP12
             bh  == sb \div TwoP12
             bl  == sb % TwoP12
             mid == ah * bl + al * bh
             L0  == (mid % TwoP12) * TwoP12 + al * bl
             H   == ah * bh + mid \div TwoP12 + L0 \div TwoP24
             L   == L0 % TwoP24
         IN  RoundPack(XorSign(a, b), Exp(a) + Exp(b) + 22,
                       H * 4 + L \div 2^22, L % 2^22 # 0)

\* Further quotient bits of rem / d by long division, c = 2^bits at a time
\* (rem < d < 2^24 and c <= 64): qr = <<quotient, remainder>>.
DivStep(qr, d, c) == <<qr[1] * c + (qr[2] * c) \div d, (qr[2] * c) % d>>

\* a / b
FDiv(a, b) ==
    IF a.e = 255 \/ b.e = 255
    THEN (IF IsNaN(a) \/ IsNaN(b) \/ (IsInf(a) /\ IsInf(b)) THEN NaN
          ELSE IF IsInf(a) THEN Inf(XorSign(a, b))
          ELSE Zero(XorSign(a, b)))
    ELSE IF IsZero(a) /\ IsZero(b) THEN NaN
    ELSE IF IsZero(b) THEN Inf(XorSign(a, b))
    ELSE IF IsZero(a) THEN Zero(XorSign(a, b))
    ELSE LET sa == Sig(a)
             sb == Sig(b)
             q0 == <<sa \div sb, sa % sb>>
             q1 == DivStep(DivStep(q0, sb, 64), sb, 64)
             q2 == DivStep(DivStep(q1, sb, 64), sb, 64)
             qr == DivStep(q2, sb, 4)
         IN  RoundPack(XorSign(a, b), Exp(a) - Exp(b) - 26, qr[1], qr[2] # 0)

\* n shifted right by d bits, any bit shifted out kept in the lowest bit.
ShiftRightJam(n, d) ==
    IF d = 0 THEN n
    ELSE IF d >= 30 THEN (IF n # 0 THEN 1 ELSE 0)
    ELSE LET q == n \div 2^d
         IN  IF n % 2^d # 0 /\ q % 2 = 0 THEN q + 1 ELSE q

\* a + b
FAdd(a, b) ==
    IF a.e = 255 \/ b.e = 255
    THEN (IF IsNaN(a) \/ IsNaN(b) THEN NaN
          ELSE IF IsInf(a) /\ IsInf(b) THEN (IF a.s = b.s THEN a ELSE NaN)
          ELSE IF IsInf(a) THEN a
          ELSE b)
    ELSE IF IsZero(a) /\ IsZero(b) THEN Zero(IF a.s = 1 /\ b.s = 1 THEN 1 ELSE 0)
    ELSE IF IsZero(a) THEN b
    ELSE IF IsZero(b) THEN a
    ELSE LET big == IF Exp(a) >= Exp(b) THEN a ELSE b
             sml == IF Exp(a) >= Exp(b) THEN b ELSE a
             db  == Sig(big) * 8
             ds  == ShiftRightJam(Sig(sml) * 8, Exp(big) - Exp(sml))
             ex  == Exp(big) - 3
         IN  IF big.s = sml.s THEN RoundPack(big.s, ex, db + ds, FALSE)
             ELSE IF db = ds THEN Zero(0)
             ELSE IF db > ds THEN RoundPack(big.s, ex, db - ds, FALSE)
             ELSE RoundPack(sml.s, ex, ds - db, FALSE)

\* -a
FNeg(a) == IF a.e = 255 /\ a.m # 0 THEN NaN ELSE F32(1 - a.s, a.e, a.m)

\* a - b
FSub(a, b) == FAdd(a, FNeg(b))

\* One step of the square root digit by digit, in radix c.  rr = <<root,
\* remainder>> of the bits of the radicand read so far and bits its next
\* 2 * log2(c) bits: the next digit of the root is the largest d with
\* (c * root + d)^2 within the radicand.
SqrtStep(rr, bits, c) ==
    LET cur == c * c * rr[2] + bits
        d   == CHOOSE x \in 0..(c - 1) :
                 /\ x * (2 * c * rr[1] + x) <= cur
                 /\ (x = c - 1 \/ (x + 1) * (2 * c * rr[1] + x + 1) > cur)
    IN  <<c * rr[1] + d, cur - d * (2 * c * rr[1] + d)>>

\* <<root, remainder>> of n * 2^28, n < 2^26: 27 bits of root, in six steps of
\* four bits and one of three.
SqrtRem(n) ==
    LET r1 == SqrtStep(<<0, 0>>, (n \div 2^18) % 256, 16)
        r2 == SqrtStep(r1, (n \div 2^10) % 256, 16)
        r3 == SqrtStep(r2, (n \div 4) % 256, 16)
        r4 == SqrtStep(r3, (n % 4) * 64, 16)
        r5 == SqrtStep(r4, 0, 16)
        r6 == SqrtStep(r5, 0, 16)
    IN  SqrtStep(r6, 0, 8)

\* sqrt(a)
FSqrt(a) ==
    IF a.e = 255 THEN (IF IsNaN(a) \/ a.s = 1 THEN NaN ELSE a)
    ELSE IF IsZero(a) THEN a
    ELSE IF a.s = 1 THEN NaN
    ELSE LET odd == Exp(a) % 2 = 1
             n   == IF odd THEN Sig(a) * 2 ELSE Sig(a)
             ex  == IF odd THEN Exp(a) - 1 ELSE Exp(a)
             rr  == SqrtRem(n)
         IN  RoundPack(0, (ex \div 2) - 14, rr[1], rr[2] # 0)

\* The order of the non-NaN values as integers (-0 and +0 are equal).
Key(a) == IF a.s = 0 THEN a.e * TwoP23 + a.m ELSE -(a.e * TwoP23 + a.m)

\* a < b, a > b, a == b: false when either side is NaN.
FLt(a, b) == ~IsNaN(a) /\ ~IsNaN(b) /\ Key(a) < Key(b)
FGt(a, b) == FLt(b, a)
FEq(a, b) == ~IsNaN(a) /\ ~IsNaN(b) /\ Key(a) = Key(b)
FLe(a, b) == FLt(a, b) \/ FEq(a, b)

\* The f32 of an integer literal (exact for |n| < 2^24 and for powers of two).
I2F(n) == IF n = 0 THEN Zero(0)
          ELSE IF n > 0 THEN RoundPack(0, 0, n, FALSE)
          ELSE RoundPack(1, 0, -n, FALSE)

\* The f32 of the decimal literal n/d: the nearest binary32, as rustc reads it.
Lit(n, d) == FDiv(I2F(n), I2F(d))


\* F applied to the value of v: v is computed first, as a let statement of
\* the program computes its right-hand side before the statements after it.
Eval(v, F(_)) == CHOOSE r \in {F(x) : x \in {v}} : TRUE

(***************************************************************************)
(* glam::Vec2 and the f32 methods the program calls                        *)
(***************************************************************************)
vec2(x, y) == [x |-> x, y |-> y]

\* Vec2 + Vec2, Vec2 - Vec2, f32 * Vec2 (= Vec2 * f32), Vec2 / f32
VAdd(a, b) == vec2(FAdd(a.x, b.x), FAdd(a.y, b.y))
VSub(a, b) == vec2(FSub(a.x, b.x), FSub(a.y, b.y))
VScale(f, v) == vec2(FMul(f, v.x), FMul(f, v.y))
VDiv(v, f) == vec2(FDiv(v.x, f), FDiv(v.y, f))

\* Vec2::length_squared and Vec2::length
length_squared(v) == FAdd(FMul(v.x, v.x), FMul(v.y, v.y))
length(v) == FSqrt(length_squared(v))

\* Vec2::clamp_length_max: a vector longer than max is scaled by max / length.
clamp_length_max(v, max) ==
    Eval(length_squared(v), LAMBDA length_sq :
        IF FGt(length_sq, FMul(max, max))
        THEN VScale(FMul(FDiv(I2F(1), FSqrt(length_sq)), max), v)
        ELSE v)

\* f32::clamp
clamp(x, min, max) == IF FLt(x, min) THEN min ELSE IF FGt(x, max) THEN max ELSE x

\* (PI / 2.0).sin_cos() in f32: the sine is 1 and the cosine is -4.371139e-8.
SIN_HALF_PI == I2F(1)
COS_HALF_PI == F32(1, 102, 3915054)

\* Mat2::from_angle(PI / 2.0).mul_vec2(v): the columns are (cos, sin), (-sin, cos).
rotate_half_pi(v) ==
    vec2(FAdd(FMul(COS_HALF_PI, v.x), FMul(FNeg(SIN_HALF_PI), v.y)),
         FAdd(FMul(SIN_HALF_PI, v.x), FMul(COS_HALF_PI, v.y)))

ZeroVec == vec2(Zero(0), Zero(0))

(***************************************************************************)
(* Config and the parameter mappers                                        *)
(***************************************************************************)
MAX_SIMULATION_SPEED == 3
MIN_NUM_PARTICLES == 1
MAX_NUM_PARTICLES == 20000
MIN_PARTICLE_RADIUS == I2F(1)
MAX_PARTICLE_RADIUS == I2F(5)
MIN_INTERACT_FORCE == I2F(1)
MAX_INTERACT_FORCE == I2F(10)
MIN_DRAG == I2F(0)
MAX_DRAG == I2F(10)
MAX_TRAIL_LENGTH == I2F(100)

DefaultConfig ==
    [simulation_speed |-> 1,
     num_particles    |-> 10000,
     particle_radius  |-> Lit(12, 10),
     interact_force   |-> Lit(11, 2),
     drag             |-> I2F(2),
     trail_length     |-> I2F(66)]

\* A faulty mapper that divides by the top of the slider range, not its width.
convert_interact_force_by_max(interact_force) ==
    LET MIN_VAL == I2F(100000)
        MAX_VAL == I2F(1900000)
    IN  FAdd(MIN_VAL,
             FMul(FDiv(FSub(MAX_VAL, MIN_VAL), MAX_INTERACT_FORCE),
                  FSub(interact_force, MIN_INTERACT_FORCE)))

convert_interact_force(interact_force) ==
    LET MIN_VAL == I2F(100000)
        MAX_VAL == I2F(1900000)
    IN  FAdd(MIN_VAL,
             FMul(FDiv(FSub(MAX_VAL, MIN_VAL),
                       FSub(MAX_INTERACT_FORCE, MIN_INTERACT_FORCE)),
                  FSub(interact_force, MIN_INTERACT_FORCE)))

convert_drag(drag) ==
    LET MIN_VAL == I2F(0)
        MAX_VAL == Lit(1, 100)
    IN  FAdd(MIN_VAL,
             FMul(FDiv(FSub(MAX_VAL, MIN_VAL), FSub(MAX_DRAG, MIN_DRAG)),
                  FSub(drag, MIN_DRAG)))

(***************************************************************************)
(* Bounds and the particle store                                           *)
(***************************************************************************)
\* screen_width() and screen_height() at startup: the host's window size.
screen_width == I2F(200)
screen_height == I2F(200)

bounds ==
    [bottom_left |-> vec2(FDiv(FNeg(screen_width), I2F(2)),
                          FDiv(FNeg(screen_height), I2F(2))),
     top_right   |-> vec2(FDiv(screen_width, I2F(2)),
                          FDiv(screen_height, I2F(2)))]

\* The collection is a Vec<Particle> of up to 20000 elements.  The loop of
\* update_particles treats every element alone, so the model keeps the
\* length of the Vec and its first MaxTracked elements.
MaxTracked == 1

Min(a, b) == IF a < b THEN a ELSE b

\* rand::gen_range(low, high) is low + (high - low) * r with a random fraction
\* 0 <= r <= 1: the model draws the two ends of that range.
RandFractions == {I2F(0), I2F(1)}

\* A faulty gen_range that leaves out the offset low.
gen_range_no_offset(low, high) ==
    {FMul(FSub(high, low), r) : r \in RandFractions}

gen_range(low, high) ==
    {FAdd(low, FMul(FSub(high, low), r)) : r \in RandFractions}

\* The particles initialize_particles can return.
NewParticles(b) ==
    {[pos |-> vec2(x, y), vel |-> ZeroVec, acc |-> ZeroVec] :
        x \in gen_range(b.bottom_left.x, b.top_right.x),
        y \in gen_range(b.bottom_left.y, b.top_right.y)}

\* The collections initialize_particles(bounds, num_particles) can return.
initialize_particles(b, num_particles) ==
    {[len |-> num_particles, elems |-> es] :
        es \in [1..Min(num_particles, MaxTracked) -> NewParticles(b)]}

(***************************************************************************)
(* The physics stepper                                                     *)
(***************************************************************************)
\* A faulty wall test that flips the velocity and leaves the coordinate.
BounceNoClamp(pos, vel, lo, hi) ==
    IF FLt(pos, lo) \/ FGt(pos, hi)
    THEN [pos |-> pos, vel |-> FMul(vel, I2F(-1))]
    ELSE [pos |-> pos, vel |-> vel]

\* A faulty wall test that also fires for a coordinate on the wall.
BounceOnWall(pos, vel, lo, hi) ==
    IF FLe(pos, lo) \/ FLe(hi, pos)
    THEN [pos |-> clamp(pos, lo, hi), vel |-> FMul(vel, I2F(-1))]
    ELSE [pos |-> pos, vel |-> vel]

\* The wall test of one axis: a coordinate strictly outside [lo, hi] is
\* clamped and the velocity component is multiplied by -1.0.
Bounce(pos, vel, lo, hi) ==
    IF FLt(pos, lo) \/ FGt(pos, hi)
    THEN [pos |-> clamp(pos, lo, hi), vel |-> FMul(vel, I2F(-1))]
    ELSE [pos |-> pos, vel |-> vel]

\* The acceleration the pointer gives a particle at pos, before the modes
\* sign it: interact_force * diff / distance_squared / distance_squared.sqrt(),
\* its length clamped to 2000.
PointerAcc(pos, interact_force, interact_point) ==
    Eval(VSub(pos, interact_point), LAMBDA diff :
    Eval(length_squared(diff), LAMBDA distance_squared :
    Eval(VDiv(VDiv(VScale(interact_force, diff), distance_squared),
              FSqrt(distance_squared)), LAMBDA acc :
         clamp_length_max(acc, I2F(2000)))))

\* A faulty interaction block that lets the first held key win.
InteractByPriority(pos, interact_force, in) ==
    IF in.attract \/ in.repel \/ in.swirl
    THEN Eval(PointerAcc(pos, interact_force, in.interact_point), LAMBDA acc :
            IF in.attract THEN VSub(ZeroVec, acc)
            ELSE IF in.repel THEN VAdd(ZeroVec, acc)
            ELSE VAdd(ZeroVec, rotate_half_pi(acc)))
    ELSE ZeroVec

\* p.acc after the mouse interaction block.
Interact(pos, interact_force, in) ==
    IF in.attract \/ in.repel \/ in.swirl
    THEN Eval(PointerAcc(pos, interact_force, in.interact_point), LAMBDA acc :
            LET a1 == IF in.attract THEN VSub(ZeroVec, acc) ELSE ZeroVec
                a2 == IF in.repel THEN VAdd(a1, acc) ELSE a1
            IN  IF in.swirl THEN VAdd(a2, rotate_half_pi(acc)) ELSE a2)
    ELSE ZeroVec

\* The body of the loop of update_particles for one particle.
UpdateParticle(p, dt, interact_force, drag, b, in) ==
    Eval([pos |-> vec2(Bounce(p.pos.x, p.vel.x, b.bottom_left.x, b.top_right.x).pos,
                       Bounce(p.pos.y, p.vel.y, b.bottom_left.y, b.top_right.y).pos),
          vel |-> vec2(Bounce(p.pos.x, p.vel.x, b.bottom_left.x, b.top_right.x).vel,
                       Bounce(p.pos.y, p.vel.y, b.bottom_left.y, b.top_right.y).vel)],
         LAMBDA w :
    Eval([a |-> Interact(w.pos, interact_force, in),
          k |-> FMul(drag, length(w.vel))], LAMBDA t :
    Eval(VSub(t.a, VScale(t.k, w.vel)), LAMBDA acc :
    Eval(VAdd(w.vel, VScale(dt, acc)), LAMBDA vel :
         [pos |-> VAdd(w.pos, VScale(dt, vel)), vel |-> vel, acc |-> acc]))))

update_particles(ps, dt, interact_force, drag, b, in) ==
    [len   |-> ps.len,
     elems |-> [i \in 1..Len(ps.elems) |->
                  UpdateParticle(ps.elems[i], dt, interact_force, drag, b, in)]]

(***************************************************************************)
(* The host's input, constant within a frame                               *)
(***************************************************************************)
\* is_key_down of Z, X and C
KeyStates ==
    {[attract |-> FALSE, repel |-> FALSE, swirl |-> FALSE],
     [attract |-> TRUE,  repel |-> FALSE, swirl |-> FALSE]}

\* screen_to_world(mouse_position()): the pointer in world coordinates
MousePoints == {vec2(I2F(100), I2F(100))}

\* get_frame_time()
FrameTimes == {Lit(1, 64)}

Inputs ==
    {[attract |-> k.attract, repel |-> k.repel, swirl |-> k.swirl,
      interact_point |-> m, dt |-> t, quit |-> q] :
        k \in KeyStates, m \in MousePoints, t \in FrameTimes, q \in BOOLEAN}

\* is_key_released(KeyCode::Q)
user_quit == input.quit

(***************************************************************************)
(* The Control Panel                                                       *)
(***************************************************************************)
\* What the user can do to the panel in one frame: leave it alone, set one
\* slider to a raw value (dragged or typed), press Reset, or both.
RawInts == {0, 2, 3, 20001}
RawFloats == {I2F(-1), I2F(101)}

Sliders == {"simulation_speed", "num_particles", "particle_radius",
            "interact_force", "drag", "trail_length"}

Gestures ==
    {[slider |-> "none", ival |-> 0, fval |-> Zero(0), clicked |-> c] :
        c \in BOOLEAN}
    \cup {[slider |-> f, ival |-> v, fval |-> Zero(0), clicked |-> c] :
        f \in {"simulation_speed", "num_particles"}, v \in RawInts, c \in BOOLEAN}
    \cup {[slider |-> f, ival |-> 0, fval |-> v, clicked |-> c] :
        f \in Sliders \ {"simulation_speed", "num_particles"},
        v \in RawFloats, c \in BOOLEAN}

Idle == [slider |-> "none", ival |-> 0, fval |-> Zero(0), clicked |-> FALSE]

\* egui::Slider::new(&mut value, min..=max): the value the slider stores is
\* the raw one clamped into the range; an untouched slider keeps its value.
SliderInt(value, min, max, name, g) ==
    IF g.slider # name THEN value
    ELSE IF g.ival < min THEN min ELSE IF g.ival > max THEN max ELSE g.ival

\* A faulty slider that stores the raw value.
SliderF32Unclamped(value, min, max, name, g) ==
    IF g.slider # name THEN value ELSE g.fval

SliderF32(value, min, max, name, g) ==
    IF g.slider # name THEN value ELSE clamp(g.fval, min, max)

\* The six sliders of config_ui, in the order they are added.
Edited(c, g) ==
    [simulation_speed |-> SliderInt(c.simulation_speed, 1, MAX_SIMULATION_SPEED,
                                    "simulation_speed", g),
     num_particles    |-> SliderInt(c.num_particles, MIN_NUM_PARTICLES,
                                    MAX_NUM_PARTICLES, "num_particles", g),
     particle_radius  |-> SliderF32(c.particle_radius, MIN_PARTICLE_RADIUS,
                                    MAX_PARTICLE_RADIUS, "particle_radius", g),
     interact_force   |-> SliderF32(c.interact_force, MIN_INTERACT_FORCE,
                                    MAX_INTERACT_FORCE, "interact_force", g),
     drag             |-> SliderF32(c.drag, MIN_DRAG, MAX_DRAG, "drag", g),
     trail_length     |-> SliderF32(c.trail_length, I2F(0),
                                    MAX_TRAIL_LENGTH, "trail_length", g)]

(***************************************************************************)
(* main                                                                    *)
(***************************************************************************)
MaxFrames == 1
MaxEdits == 1

\* The state after line 21 and the first events: pc is the place in the loop,
\* substep the index of the for loop, ui the Reset button's answer in the last
\* panel pass, reset_len the particle count given to the last
\* initialize_particles, frame and edits count frames and gestures.
Init ==
    /\ config = DefaultConfig
    /\ particles \in initialize_particles(bounds, config.num_particles)
    /\ reset_len = config.num_particles
    /\ input \in Inputs
    /\ ui = FALSE
    /\ pc = "top"
    /\ substep = 0
    /\ frame = 0
    /\ edits = 0

\* A faulty loop top that does not look at the quit key.
LoopTopNoQuit ==
    /\ pc = "top"
    /\ pc' = "ui"
    /\ UNCHANGED <<config, particles, input, ui, substep, frame, edits, reset_len>>

\* if user_quit() { break; }
LoopTop ==
    /\ pc = "top"
    /\ pc' = IF user_quit THEN "done" ELSE "ui"
    /\ UNCHANGED <<config, particles, input, ui, substep, frame, edits, reset_len>>

\* A faulty panel that resizes the collection as the particle slider moves.
config_ui_resizing ==
    /\ pc = "ui"
    /\ \E g \in Gestures :
         /\ g # Idle => edits < MaxEdits
         /\ edits' = IF g = Idle THEN edits ELSE edits + 1
         /\ config' = Edited(config, g)
         /\ ui' = g.clicked
         /\ IF g.clicked \/ g.slider = "num_particles"
            THEN particles' \in initialize_particles(bounds, config'.num_particles)
            ELSE UNCHANGED particles
         /\ reset_len' = IF g.clicked THEN config'.num_particles ELSE reset_len
    /\ pc' = "update"
    /\ substep' = 0
    /\ UNCHANGED <<input, frame>>

\* config_ui(&mut config, &bounds, &mut particles), and the for loop begins
config_ui ==
    /\ pc = "ui"
    /\ \E g \in Gestures :
         /\ g # Idle => edits < MaxEdits
         /\ edits' = IF g = Idle THEN edits ELSE edits + 1
         /\ config' = Edited(config, g)
         /\ ui' = g.clicked
         /\ IF g.clicked
            THEN /\ particles' \in initialize_particles(bounds, config'.num_particles)
                 /\ reset_len' = config'.num_particles
            ELSE UNCHANGED <<particles, reset_len>>
    /\ pc' = "update"
    /\ substep' = 0
    /\ UNCHANGED <<input, frame>>

\* one iteration of for _ in 0..config.simulation_speed
UpdateStep ==
    /\ pc = "update"
    /\ substep < config.simulation_speed
    /\ particles' =
         Eval([interact_force |-> convert_interact_force(config.interact_force),
               drag |-> convert_drag(config.drag)], LAMBDA k :
              update_particles(particles, input.dt, k.interact_force, k.drag,
                               bounds, input))
    /\ substep' = substep + 1
    /\ UNCHANGED <<config, input, ui, pc, frame, edits, reset_len>>

\* the for loop is over: drawing to the texture and to the screen
Render ==
    /\ pc = "update"
    /\ ~(substep < config.simulation_speed)
    /\ pc' = "yield"
    /\ UNCHANGED <<config, particles, input, ui, substep, frame, edits, reset_len>>

\* next_frame().await: the host handles its events and the loop goes round
NextFrame ==
    /\ pc = "yield"
    /\ frame < MaxFrames
    /\ frame' = frame + 1
    /\ input' \in Inputs
    /\ pc' = "top"
    /\ UNCHANGED <<config, particles, ui, substep, edits, reset_len>>

Next == LoopTop \/ config_ui \/ UpdateStep \/ Render \/ NextFrame

Spec == Init /\ [][Next]_vars

(***************************************************************************)
(* One particle under update_particles: the states a substep can start in  *)
(***************************************************************************)
\* Positions inside, on and beyond the walls, and one 2^-27 from the origin.
StepPositions ==
    {vec2(I2F(0), I2F(0)), vec2(I2F(105), I2F(0)), vec2(I2F(100), I2F(0)),
     vec2(I2F(-105), I2F(105)), vec2(Lit(1, 134217728), I2F(0))}

StepVelocities ==
    {ZeroVec, vec2(I2F(10), I2F(0)), vec2(I2F(-10), I2F(10)),
     vec2(Lit(1, 1048576), I2F(0))}

StepPointers ==
    {vec2(I2F(0), I2F(0)), vec2(I2F(10), I2F(0)), vec2(I2F(0), I2F(3)),
     vec2(I2F(3), I2F(4))}

\* A substep ends with pos += vel * dt, so a coordinate beyond a wall got
\* there with the velocity component that points out of the bounds.
CarriedOut(pos, vel, lo, hi) ==
    /\ FGt(pos, hi) => FGt(vel, I2F(0))
    /\ FLt(pos, lo) => FLt(vel, I2F(0))

\* The particles a substep can find.
StepParticles ==
    {[pos |-> pos, vel |-> vel, acc |-> ZeroVec] :
        <<pos, vel>> \in
            {pv \in StepPositions \X StepVelocities :
                /\ CarriedOut(pv[1].x, pv[2].x, bounds.bottom_left.x,
                              bounds.top_right.x)
                /\ CarriedOut(pv[1].y, pv[2].y, bounds.bottom_left.y,
                              bounds.top_right.y)}}

StepInputs ==
    {[attract |-> a, repel |-> r, swirl |-> c, interact_point |-> m,
      dt |-> t, quit |-> FALSE] :
        a \in BOOLEAN, r \in BOOLEAN, c \in BOOLEAN, m \in StepPointers,
        t \in {I2F(1), Lit(1, 64)}}

\* Configs the panel can leave behind: one particle, two substeps a frame,
\* the force slider and the drag slider at an end of their range or inside it.
StepConfigs ==
    {[DefaultConfig EXCEPT !.simulation_speed = 2, !.num_particles = 1,
                           !.interact_force = f, !.drag = d] :
        f \in {MIN_INTERACT_FORCE, MAX_INTERACT_FORCE}, d \in {MIN_DRAG, I2F(2)}}

\* The for loop of main is entered with one particle in any of these states.
InitStep ==
    /\ config \in StepConfigs
    /\ \E p \in StepParticles : particles = [len |-> 1, elems |-> <<p>>]
    /\ reset_len = 1
    /\ input \in StepInputs
    /\ ui = FALSE
    /\ pc = "update"
    /\ substep = 0
    /\ frame = 0
    /\ edits = 0

SpecStep == InitStep /\ [][UpdateStep]_vars

(***************************************************************************)
(* Properties of the frame loop, the panel and the store (under Spec)      *)
(***************************************************************************)
InBounds(p, b) ==
    /\ FLe(b.bottom_left.x, p.x) /\ FLe(p.x, b.top_right.x)
    /\ FLe(b.bottom_left.y, p.y) /\ FLe(p.y, b.top_right.y)

IsZeroVec(v) == IsZero(v.x) /\ IsZero(v.y)

IsFiniteVec(v) == IsFinite(v.x) /\ IsFinite(v.y)

\* Nothing has touched the collection since initialize_particles returned:
\* the program has just started, or Reset was pressed in this frame's panel
\* pass and no substep has run yet.
FreshlyInitialized ==
    \/ frame = 0 /\ pc \in {"top", "ui"}
    \/ ui /\ pc = "update" /\ substep = 0

\* C1: right after startup and right after every Reset the collection has
\* exactly config.num_particles elements (the value at that moment), every
\* position is within the bounds on both axes and every velocity and
\* acceleration is zero.
C1_ResetPostcondition ==
    FreshlyInitialized =>
        /\ particles.len = config.num_particles
        /\ Len(particles.elems) = Min(particles.len, MaxTracked)
        /\ \A i \in DOMAIN particles.elems :
             /\ InBounds(particles.elems[i].pos, bounds)
             /\ IsZeroVec(particles.elems[i].vel)
             /\ IsZeroVec(particles.elems[i].acc)

\* Reset pressed in the pass that also moved the particle slider to 2: the
\* collection has the new size, its first particle on the right wall and on
\* the bottom wall.
C1_Witness ==
    /\ ui /\ pc = "update" /\ substep = 0
    /\ config.num_particles = 2 /\ particles.len = 2
    /\ FEq(particles.elems[1].pos.x, bounds.top_right.x)
    /\ FEq(particles.elems[1].pos.y, bounds.bottom_left.y)

\* C2: the length of the collection changes only in a panel pass in which
\* Reset is pressed; slider moves, substeps and frames leave it alone, so it
\* always equals the num_particles of startup or of the latest Reset.
C2_LengthChangesOnlyOnReset ==
    /\ [](particles.len = reset_len)
    /\ [][particles'.len # particles.len => pc = "ui" /\ ui']_vars

\* The particle slider was moved without Reset and the frame's substeps ran.
C2_Witness ==
    /\ pc = "yield" /\ ~ui /\ substep > 0
    /\ config.num_particles # particles.len
    /\ particles.len = 10000

\* C3: no reachable state holds a particle whose position or velocity is not
\* an ordinary number, also when a mode is active with the pointer exactly on
\* the particle.
C3_NoNonNumber ==
    \A i \in DOMAIN particles.elems :
        /\ IsFiniteVec(particles.elems[i].pos)
        /\ IsFiniteVec(particles.elems[i].vel)

ConfigInRange ==
    /\ config.simulation_speed \in 1..3
    /\ config.num_particles \in 1..20000
    /\ FLe(I2F(1), config.particle_radius) /\ FLe(config.particle_radius, I2F(5))
    /\ FLe(I2F(1), config.interact_force) /\ FLe(config.interact_force, I2F(10))
    /\ FLe(I2F(0), config.drag) /\ FLe(config.drag, I2F(10))
    /\ FLe(I2F(0), config.trail_length) /\ FLe(config.trail_length, I2F(100))

\* C9: every Config field is within its declared range in every reachable
\* state, and Config changes only in the panel pass, never in a substep or
\* while rendering.
C9_ConfigRanges ==
    /\ []ConfigInRange
    /\ [][config' # config => pc = "ui"]_vars

\* The drag slider was given a value above its range and the substeps ran
\* with the clamped one.
C9_Witness ==
    /\ pc = "yield" /\ substep > 0 /\ edits = 1
    /\ FEq(config.drag, MAX_DRAG)

\* The steps of one frame iteration, in their order.
FrameOrder ==
    \/ /\ pc = "top" /\ user_quit /\ pc' = "done"
       /\ UNCHANGED <<config, particles>>
    \/ /\ pc = "top" /\ ~user_quit /\ pc' = "ui"
       /\ UNCHANGED <<config, particles>>
    \/ /\ pc = "ui" /\ pc' = "update" /\ substep' = 0
    \/ /\ pc = "update" /\ pc' = "update"
       /\ substep < config.simulation_speed /\ substep' = substep + 1
       /\ config' = config
    \/ /\ pc = "update" /\ pc' = "yield"
       /\ substep = config.simulation_speed /\ config.simulation_speed \in 1..3
       /\ UNCHANGED <<config, particles, substep>>
    \/ /\ pc = "yield" /\ pc' = "top"
       /\ UNCHANGED <<config, particles>>

\* C10: a frame is the quit check, then the panel pass, then exactly
\* simulation_speed substeps (the value the panel pass left), then rendering,
\* then one yield; a quit seen at the loop top ends the loop at once, and
\* nothing changes afterwards (no step leaves pc = "done").
C10_FrameOrder == [][FrameOrder]_vars

\* The panel pass raised simulation_speed to 3 and the frame ran 3 substeps.
C10_Witness ==
    pc = "yield" /\ substep = 3 /\ config.simulation_speed = 3 /\ edits = 1

\* C8: convert_interact_force is exactly 100000 at slider 1 and 1900000 at
\* slider 10, convert_drag exactly 0 at slider 0 and 0.01 at slider 10; both
\* are the linear map MIN + (MAX - MIN) / (max - min) * (f - min), which gives
\* 1000000 at the default force slider 5.5.
C8_MapperEndpoints ==
    /\ FEq(config.interact_force, MIN_INTERACT_FORCE)
         => convert_interact_force(config.interact_force) = I2F(100000)
    /\ FEq(config.interact_force, MAX_INTERACT_FORCE)
         => convert_interact_force(config.interact_force) = I2F(1900000)
    /\ FEq(config.interact_force, Lit(11, 2))
         => convert_interact_force(config.interact_force) = I2F(1000000)
    /\ FEq(config.drag, MIN_DRAG) => convert_drag(config.drag) = Zero(0)
    /\ FEq(config.drag, MAX_DRAG) => convert_drag(config.drag) = Lit(1, 100)

\* The force slider was pushed to the top of its range and the substeps
\* ran with the mapped value.
C8_Witness ==
    /\ pc = "yield" /\ substep > 0 /\ edits = 1
    /\ FEq(config.interact_force, MAX_INTERACT_FORCE)

(***************************************************************************)
(* Properties of one substep (under SpecStep)                              *)
(***************************************************************************)
NoMode(in) == ~in.attract /\ ~in.repel /\ ~in.swirl

\* The substep about to run has no mode active and the drag constant 0.
FreeFlight ==
    pc = "update" /\ NoMode(input) /\ IsZero(convert_drag(config.drag))

\* What C4 says of one axis: pos, vel before the substep, pos2, vel2 after.
C4Axis(pos, vel, lo, hi, dt, pos2, vel2) ==
    IF FLt(pos, lo)
    THEN FEq(vel2, FNeg(vel)) /\ FEq(pos2, FAdd(lo, FMul(FNeg(vel), dt)))
    ELSE IF FGt(pos, hi)
    THEN FEq(vel2, FNeg(vel)) /\ FEq(pos2, FAdd(hi, FMul(FNeg(vel), dt)))
    ELSE FEq(vel2, vel) /\ FEq(pos2, FAdd(pos, FMul(vel, dt)))

\* C4: in a substep with no mode active and drag constant 0, an axis whose
\* coordinate is strictly outside the bounds ends with its velocity negated
\* and its coordinate at the nearest bound plus negated velocity * dt; an
\* axis inside keeps its velocity and advances by velocity * dt; the axes are
\* independent.  Bounds -100..100, x = 105, vx = 10, dt = 1 give vx = -10 and
\* x = 90.
C4_WallBounceStep ==
    [][FreeFlight =>
        \A i \in DOMAIN particles.elems :
            LET p == particles.elems[i]
                q == particles'.elems[i]
            IN  /\ C4Axis(p.pos.x, p.vel.x, bounds.bottom_left.x,
                          bounds.top_right.x, input.dt, q.pos.x, q.vel.x)
                /\ C4Axis(p.pos.y, p.vel.y, bounds.bottom_left.y,
                          bounds.top_right.y, input.dt, q.pos.y, q.vel.y)
                /\ (p.pos.x = I2F(105) /\ p.vel.x = I2F(10) /\ input.dt = I2F(1))
                     => q.vel.x = I2F(-10) /\ q.pos.x = I2F(90)]_vars

\* The instance of C4 after its substep.
C4_Witness ==
    /\ pc = "update" /\ substep = 1 /\ NoMode(input)
    /\ IsZero(convert_drag(config.drag)) /\ input.dt = I2F(1)
    /\ particles.elems[1].pos = vec2(I2F(90), I2F(0))
    /\ particles.elems[1].vel.x = I2F(-10)

\* The particle q after one more substep on the inputs of this frame.
StepAgain(q) ==
    Eval([interact_force |-> convert_interact_force(config.interact_force),
          drag |-> convert_drag(config.drag)], LAMBDA k :
         UpdateParticle(q, input.dt, k.interact_force, k.drag, bounds, input))

Within(pos, lo, hi) == FLe(lo, pos) /\ FLe(pos, hi)

\* One axis of a particle strictly beyond a wall and moving further out:
\* pos, vel before the substep, pos1, vel1 after it, vel2 after the next.
C5Axis(pos, vel, lo, hi, dt, pos1, vel1, vel2) ==
    /\ (FGt(pos, hi) /\ FGt(vel, I2F(0)))
         => /\ FEq(vel1, FNeg(vel))
            /\ FEq(pos1, FAdd(hi, FMul(dt, FNeg(vel))))
            /\ Within(pos1, lo, hi) => FEq(vel2, vel1)
    /\ (FLt(pos, lo) /\ FLt(vel, I2F(0)))
         => /\ FEq(vel1, FNeg(vel))
            /\ FEq(pos1, FAdd(lo, FMul(dt, FNeg(vel))))
            /\ Within(pos1, lo, hi) => FEq(vel2, vel1)
    /\ ((FEq(pos, hi) /\ FGt(vel, I2F(0))) \/ (FEq(pos, lo) /\ FLt(vel, I2F(0))))
         => FEq(vel1, vel) /\ FEq(pos1, FAdd(pos, FMul(dt, vel)))

\* C5 as amended: with no mode active and drag constant 0, a particle
\* strictly beyond a wall and moving further out is put on the wall and has
\* that axis's velocity flipped within one substep, and the next substep does
\* not flip it again when the first left the coordinate within the bounds;
\* a particle exactly on the wall is inside: that substep neither clamps nor
\* flips it.
C5_BounceOnce ==
    [][FreeFlight =>
        \A i \in DOMAIN particles.elems :
            LET p  == particles.elems[i]
                q1 == particles'.elems[i]
                q2 == StepAgain(q1)
            IN  /\ C5Axis(p.pos.x, p.vel.x, bounds.bottom_left.x,
                          bounds.top_right.x, input.dt, q1.pos.x, q1.vel.x, q2.vel.x)
                /\ C5Axis(p.pos.y, p.vel.y, bounds.bottom_left.y,
                          bounds.top_right.y, input.dt, q1.pos.y, q1.vel.y, q2.vel.y)]_vars

\* Two substeps after x = 105, vx = 10: flipped once, at x = 80.
C5_Witness ==
    /\ pc = "update" /\ substep = 2 /\ NoMode(input)
    /\ IsZero(convert_drag(config.drag)) /\ input.dt = I2F(1)
    /\ particles.elems[1].pos = vec2(I2F(80), I2F(0))
    /\ particles.elems[1].vel.x = I2F(-10)

\* C5 as stated: a particle exactly on a wall and moving outward is clamped
\* to the wall and has that axis's velocity flipped in one step, and the
\* same step applied again does not flip it a second time.
C5_OnWallFlips ==
    [][FreeFlight =>
        \A i \in DOMAIN particles.elems :
            LET p  == particles.elems[i]
                q1 == particles'.elems[i]
                q2 == StepAgain(q1)
            IN  (FEq(p.pos.x, bounds.top_right.x) /\ FGt(p.vel.x, I2F(0)))
                  => /\ FEq(q1.vel.x, FNeg(p.vel.x))
                     /\ FEq(q2.vel.x, q1.vel.x)]_vars

\* Equal as numbers, or both the non-number.
SameF(a, b) == FEq(a, b) \/ (IsNaN(a) /\ IsNaN(b))

SameVec(a, b) == SameF(a.x, b.x) /\ SameF(a.y, b.y)

\* The acceleration a substep assigns to p on this frame's inputs with the
\* keys replaced by the given ones.
AccWith(p, attract, repel, swirl) ==
    Eval([interact_force |-> convert_interact_force(config.interact_force),
          drag |-> convert_drag(config.drag)], LAMBDA k :
         UpdateParticle(p, input.dt, k.interact_force, k.drag, bounds,
                        [input EXCEPT !.attract = attract, !.repel = repel,
                                      !.swirl = swirl]).acc)

\* The sum, in the order of the code, of the accelerations the held modes
\* give when each is held alone.
SumOfSingles(p, in) ==
    Eval([a |-> AccWith(p, TRUE, FALSE, FALSE),
          r |-> AccWith(p, FALSE, TRUE, FALSE),
          c |-> AccWith(p, FALSE, FALSE, TRUE)], LAMBDA t :
        IF in.attract /\ in.repel /\ in.swirl THEN VAdd(VAdd(t.a, t.r), t.c)
        ELSE IF in.attract /\ in.repel THEN VAdd(t.a, t.r)
        ELSE IF in.attract /\ in.swirl THEN VAdd(t.a, t.c)
        ELSE VAdd(t.r, t.c))

SeveralModes(in) ==
    (in.attract /\ in.repel) \/ (in.attract /\ in.swirl) \/ (in.repel /\ in.swirl)

\* The drag term drag * |vel| * vel of the substep is zero: the drag constant
\* is 0 or the particle is at rest.
NoDragTerm(p) ==
    /\ IsFiniteVec(p.vel)
    /\ IsZero(convert_drag(config.drag)) \/ IsZeroVec(p.vel)

\* C6 as amended: when the drag term of the substep is zero, the
\* acceleration assigned with several modes held is the sum of the
\* accelerations assigned with each of them held alone (attract and swirl:
\* attract-only plus swirl-only; attract and repel: -a + a); with the pointer
\* on the particle all of them are the non-number.
C6_ModesAddWithoutDrag ==
    [][(pc = "update" /\ SeveralModes(input)) =>
        \A i \in DOMAIN particles.elems :
            NoDragTerm(particles.elems[i])
              => Eval(SumOfSingles(particles.elems[i], input), LAMBDA sum :
                      SameVec(particles'.elems[i].acc, sum))]_vars

\* Attract and swirl were held on a moving particle with drag constant 0,
\* the pointer at (3, 4) from it: the substep gave the particle an
\* acceleration that is a number and not zero.
C6_Witness ==
    /\ pc = "update" /\ substep = 1
    /\ input.attract /\ input.swirl /\ ~input.repel
    /\ input.interact_point = vec2(I2F(3), I2F(4))
    /\ IsZero(convert_drag(config.drag))
    /\ ~IsZeroVec(particles.elems[1].vel)
    /\ IsFiniteVec(particles.elems[1].acc)
    /\ ~IsZeroVec(particles.elems[1].acc)

\* C6 as stated: for every particle state and every drag constant the
\* acceleration assigned with attract and swirl held is the sum of the one
\* assigned with attract alone and the one assigned with swirl alone.
C6_ModesAddAlways ==
    [][(pc = "update" /\ input.attract /\ input.swirl /\ ~input.repel) =>
        \A i \in DOMAIN particles.elems :
            Eval(SumOfSingles(particles.elems[i], input), LAMBDA sum :
                 SameVec(particles'.elems[i].acc, sum))]_vars

\* |x - y| <= tol
Near(x, y, tol) == FLe(FSub(x, y), tol) /\ FLe(FSub(y, x), tol)

\* No component of acc points against the same component of diff.
PointsAlong(acc, diff) ==
    /\ ~(FGt(diff.x, I2F(0)) /\ FLt(acc.x, I2F(0)))
    /\ ~(FLt(diff.x, I2F(0)) /\ FGt(acc.x, I2F(0)))
    /\ ~(FGt(diff.y, I2F(0)) /\ FLt(acc.y, I2F(0)))
    /\ ~(FLt(diff.y, I2F(0)) /\ FGt(acc.y, I2F(0)))

\* C7, with the magnitude 2000 granted the rounding of f32 (1/512): with
\* repel the only mode held and the particle at rest inside the bounds at a
\* distance d > 0 from the pointer, the acceleration assigned is
\* force * (pos - pointer) / d^3 when that is no longer than 2000 and else
\* has that direction and the length 2000; it never points toward the
\* pointer.  Particle (0, 0), pointer (10, 0), force 100000: (-1000, 0).
C7_RepelAcceleration ==
    [][(pc = "update" /\ input.repel /\ ~input.attract /\ ~input.swirl) =>
        \A i \in DOMAIN particles.elems :
            LET p    == particles.elems[i]
                f    == convert_interact_force(config.interact_force)
                diff == VSub(p.pos, input.interact_point)
                d2   == length_squared(diff)
                u    == VDiv(VDiv(VScale(f, diff), d2), FSqrt(d2))
                acc  == particles'.elems[i].acc
            IN  (IsZeroVec(p.vel) /\ InBounds(p.pos, bounds) /\ FGt(d2, I2F(0)))
                  => /\ PointsAlong(acc, diff)
                     /\ IF FLe(length(u), I2F(2000))
                        THEN SameVec(acc, u)
                        ELSE Near(length(acc), I2F(2000), Lit(1, 512))
                     /\ (p.pos = ZeroVec /\ f = I2F(100000)
                           /\ input.interact_point = vec2(I2F(10), I2F(0)))
                          => FEq(acc.x, I2F(-1000)) /\ FEq(acc.y, I2F(0))]_vars
=============================================================================
